---- MODULE Spec2Model ----
(***************************************************************************)
(* react-popout: the read/write batching scheduler (src/src/scheduler.ts)  *)
(* and the placement / collision / flip geometry of the Popout component.  *)
(***************************************************************************)
EXTENDS Integers, Sequences, FiniteSets, TLC

(* ---------------------------------------------------------------------- *)
(* Bounds of the model                                                     *)
(* ---------------------------------------------------------------------- *)

\* total number of read()/write() calls in one behaviour
MaxEnq == 3

\* number of times positionPopout is triggered (effect, resize, scroll) in one behaviour
MaxTriggers == 2

\* the callback functions the callers pass to read() and write(); the scheduler never
\* looks at a callback, and every call is told apart by its sequence number (id)
Callbacks == {"f"}

\* JavaScript null for rafId / timeoutId; the host's handles are positive
NULL == 0

(* ---------------------------------------------------------------------- *)
(* State                                                                   *)
(* ---------------------------------------------------------------------- *)

VARIABLES
  reads,      \* scheduler.ts:1  queue of read callbacks
  writes,     \* scheduler.ts:2  queue of write callbacks
  rafId,      \* scheduler.ts:3  handle of the requested animation frame, or NULL
  timeoutId,  \* scheduler.ts:4  handle of the requested timeout, or NULL
  i,          \* scheduler.ts:7  loop counter of the running drain
  cb,         \* scheduler.ts:7  the element last shifted off a queue
  frames,     \* host: animation-frame requests not yet delivered
  timers,     \* host: timeouts not yet delivered
  lastHandle, \* host: last handle it gave out
  pc,         \* "idle" | "writes" (inside the frame callback) | "reads" (inside the timeout callback)
  running,    \* TRUE while the callback cb is executing
  calls,      \* read()/write() calls made so far
  log,        \* history since the scheduler was last idle: every call, signal and
              \* callback execution, in order
  anchorRect,          \* part_002:145  anchor.current.getBoundingClientRect()
  popoutRect,          \* part_002:146  el.getBoundingClientRect()
  boundary,            \* part_002:131  the boundary prop: absent, a ref holding null, or a
                       \*               ref to an element with its rectangle (part_002:149)
  direction,           \* part_002:134  prop
  flip,                \* part_002:135  prop
  flipFailureRecovery, \* part_002:136  prop
  position,            \* part_002:147  the rectangle the read callback ends with
  flipped,             \* part_002:143
  outOufBoundsSides,   \* part_002:150
  resolved,            \* TRUE once the flip block of the read callback has computed position
  anchorCurrent,       \* part_002:142  anchor.current is an element (not null)
  popoutCurrent,       \* part_002:142  popoutRef.current is an element (not null)
  style,               \* part_002:181  el.style.top and el.style.left
  borders,             \* part_002:177  the border colours of the boundary element
  closures,            \* the variables each enqueued write callback has captured, by call
  measuredFor,         \* the read entry whose rectangles have been measured (0: none)
  doneFor,             \* the entry whose callback has executed its last statement (0: none)
  triggers             \* calls of positionPopout so far

schedVars == <<reads, writes, rafId, timeoutId, i, cb, frames, timers, lastHandle,
               pc, running, calls, log>>

domVars == <<anchorCurrent, popoutCurrent, style, borders, closures, measuredFor,
             doneFor, triggers>>

geoVars == <<anchorRect, popoutRect, boundary, direction, flip, flipFailureRecovery,
             position, flipped, outOufBoundsSides, resolved, domVars>>

NoCb == [cb |-> "", id |-> 0]

\* one history record; unused fields are 0 / ""
Ev(e, q, c, id, by, ret) == [e |-> e, q |-> q, cb |-> c, id |-> id, by |-> by, ret |-> ret]
Sig(e) == Ev(e, "", "", 0, 0, 0)

\* the scheduler is idle: nothing queued, nothing requested, no code running
Idle(rs, ws, raf, tmo, p) ==
  rs = <<>> /\ ws = <<>> /\ raf = NULL /\ tmo = NULL /\ p = "idle"

\* the history a call is recorded in: a call made to an idle scheduler starts a new one
History == IF Idle(reads, writes, rafId, timeoutId, pc) THEN <<>> ELSE log

SchedInit ==
  /\ reads = <<>>
  /\ writes = <<>>
  /\ rafId = NULL
  /\ timeoutId = NULL
  /\ i = 0
  /\ cb = NoCb
  /\ frames = {}
  /\ timers = {}
  /\ lastHandle = 0
  /\ pc = "idle"
  /\ running = FALSE
  /\ calls = 0
  /\ log = <<>>

(* ---------------------------------------------------------------------- *)
(* scheduler.ts                                                            *)
(* ---------------------------------------------------------------------- *)

\* schedule() as it would be if it requested a frame on every call
scheduleAlways ==
  /\ lastHandle' = lastHandle + 1
  /\ frames' = frames \cup {lastHandle + 1}
  /\ rafId' = lastHandle + 1

\* schedule(): rafId = rafId || window.requestAnimationFrame(...)
schedule ==
  IF rafId # NULL
    THEN UNCHANGED <<rafId, frames, lastHandle>>
    ELSE /\ lastHandle' = lastHandle + 1
         /\ frames' = frames \cup {lastHandle + 1}
         /\ rafId' = lastHandle + 1

\* read() as it would be if it returned the length before the push
readReturnsOldLength(c, by) ==
  /\ calls' = calls + 1
  /\ schedule
  /\ reads' = Append(reads, [cb |-> c, id |-> calls + 1])
  /\ log' = Append(History, Ev("enq", "r", c, calls + 1, by, Len(reads)))
  /\ UNCHANGED <<writes, timeoutId, timers, i, cb, pc, running>>

\* read(cb): schedule(); return reads.push(cb)   (by = the entry calling, 0 from outside)
read(c, by) ==
  /\ calls' = calls + 1
  /\ schedule
  /\ reads' = Append(reads, [cb |-> c, id |-> calls + 1])
  /\ log' = Append(History, Ev("enq", "r", c, calls + 1, by, Len(reads')))
  /\ UNCHANGED <<writes, timeoutId, timers, i, cb, pc, running>>

\* write() as it would be if the queue were a set of callbacks
writeOnce(c, by) ==
  /\ calls' = calls + 1
  /\ schedule
  /\ writes' = IF \E k \in 1..Len(writes) : writes[k].cb = c
                 THEN writes
                 ELSE Append(writes, [cb |-> c, id |-> calls + 1])
  /\ log' = Append(History, Ev("enq", "w", c, calls + 1, by, Len(writes')))
  /\ UNCHANGED <<reads, timeoutId, timers, i, cb, pc, running>>

\* write(cb): schedule(); return writes.push(cb)
write(c, by) ==
  /\ calls' = calls + 1
  /\ schedule
  /\ writes' = Append(writes, [cb |-> c, id |-> calls + 1])
  /\ log' = Append(History, Ev("enq", "w", c, calls + 1, by, Len(writes')))
  /\ UNCHANGED <<reads, timeoutId, timers, i, cb, pc, running>>

\* a caller outside the scheduler (event handler, effect) calls read(cb)
Read ==
  /\ pc = "idle" /\ calls < MaxEnq
  /\ \E c \in Callbacks : read(c, 0)
  /\ UNCHANGED geoVars

\* a caller outside the scheduler calls write(cb)
Write ==
  /\ pc = "idle" /\ calls < MaxEnq
  /\ \E c \in Callbacks : write(c, 0)
  /\ UNCHANGED geoVars

\* the host delivers the animation frame: rafId = null; for (i = writes.length; ...
RafCallback ==
  /\ pc = "idle"
  /\ \E h \in frames : frames' = frames \ {h}
  /\ rafId' = NULL
  /\ i' = Len(writes)
  /\ pc' = "writes"
  /\ log' = Append(log, Sig("raf"))
  /\ UNCHANGED <<reads, writes, timeoutId, cb, timers, lastHandle, running, calls>>
  /\ UNCHANGED geoVars

\* the write loop as it would be if it took the newest entry first: writes.pop()
WriteShiftPops ==
  /\ pc = "writes" /\ ~running /\ i > 0
  /\ IF writes = <<>>
       THEN /\ cb' = NoCb
            /\ i' = i - 1
            /\ UNCHANGED <<writes, running, log>>
       ELSE /\ cb' = writes[Len(writes)]
            /\ writes' = SubSeq(writes, 1, Len(writes) - 1)
            /\ running' = TRUE
            /\ log' = Append(log, Ev("run", "w", writes[Len(writes)].cb,
                                     writes[Len(writes)].id, 0, 0))
            /\ UNCHANGED i
  /\ UNCHANGED <<reads, rafId, timeoutId, frames, timers, lastHandle, pc, calls>>
  /\ UNCHANGED geoVars

\* one iteration of the write loop begins: if ((cb = writes.shift())) cb()
WriteShift ==
  /\ pc = "writes" /\ ~running /\ i > 0
  /\ IF writes = <<>>
       THEN /\ cb' = NoCb
            /\ i' = i - 1
            /\ UNCHANGED <<writes, running, log>>
       ELSE /\ cb' = Head(writes)
            /\ writes' = Tail(writes)
            /\ running' = TRUE
            /\ log' = Append(log, Ev("run", "w", Head(writes).cb, Head(writes).id, 0, 0))
            /\ UNCHANGED i
  /\ UNCHANGED <<reads, rafId, timeoutId, frames, timers, lastHandle, pc, calls>>
  /\ UNCHANGED geoVars

\* the write loop is over: timeoutId = timeoutId || window.setTimeout(...)
RafEnd ==
  /\ pc = "writes" /\ ~running /\ i = 0
  /\ IF timeoutId # NULL
       THEN UNCHANGED <<timeoutId, timers, lastHandle>>
       ELSE /\ lastHandle' = lastHandle + 1
            /\ timers' = timers \cup {lastHandle + 1}
            /\ timeoutId' = lastHandle + 1
  /\ pc' = "idle"
  /\ log' = Append(log, Sig("rafEnd"))
  /\ UNCHANGED <<reads, writes, rafId, i, cb, frames, running, calls>>
  /\ UNCHANGED geoVars

\* the host delivers the timeout: timeoutId = null; for (i = reads.length; ...
TimerCallback ==
  /\ pc = "idle"
  /\ \E h \in timers : timers' = timers \ {h}
  /\ timeoutId' = NULL
  /\ i' = Len(reads)
  /\ pc' = "reads"
  /\ log' = Append(log, Sig("timer"))
  /\ UNCHANGED <<reads, writes, rafId, cb, frames, lastHandle, running, calls>>
  /\ UNCHANGED geoVars

\* one iteration of the read loop begins: if ((cb = reads.shift())) cb()
ReadShift ==
  /\ pc = "reads" /\ ~running /\ i > 0
  /\ IF reads = <<>>
       THEN /\ cb' = NoCb
            /\ i' = i - 1
            /\ UNCHANGED <<reads, running, log>>
       ELSE /\ cb' = Head(reads)
            /\ reads' = Tail(reads)
            /\ running' = TRUE
            /\ log' = Append(log, Ev("run", "r", Head(reads).cb, Head(reads).id, 0, 0))
            /\ UNCHANGED i
  /\ UNCHANGED <<writes, rafId, timeoutId, frames, timers, lastHandle, pc, calls>>
  /\ UNCHANGED geoVars

\* the timeout callback as it would be if it went on to flush the writes its reads made
TimerEndFlushesWrites ==
  /\ pc = "reads" /\ ~running /\ i = 0
  /\ IF writes = <<>>
       THEN /\ pc' = "idle"
            /\ log' = Append(log, Sig("timerEnd"))
            /\ UNCHANGED i
       ELSE /\ pc' = "writes"
            /\ i' = Len(writes)
            /\ UNCHANGED log
  /\ UNCHANGED <<reads, writes, rafId, timeoutId, cb, frames, timers, lastHandle,
                 running, calls>>
  /\ UNCHANGED geoVars

\* the read loop is over; the timeout callback returns
TimerEnd ==
  /\ pc = "reads" /\ ~running /\ i = 0
  /\ pc' = "idle"
  /\ log' = Append(log, Sig("timerEnd"))
  /\ UNCHANGED <<reads, writes, rafId, timeoutId, i, cb, frames, timers, lastHandle,
                 running, calls>>
  /\ UNCHANGED geoVars

(* ---------------------------------------------------------------------- *)
(* The callbacks: arbitrary caller code run by cb()                        *)
(* ---------------------------------------------------------------------- *)

\* the executing callback calls read(c)
CbRead ==
  /\ running /\ calls < MaxEnq
  /\ \E c \in Callbacks : read(c, cb.id)
  /\ UNCHANGED geoVars

\* the executing callback calls write(c)
CbWrite ==
  /\ running /\ calls < MaxEnq
  /\ \E c \in Callbacks : write(c, cb.id)
  /\ UNCHANGED geoVars

\* the loops as they would be if they ran until the queue was empty
CbReturnUntilEmpty ==
  /\ running
  /\ running' = FALSE
  /\ i' = IF pc = "writes" THEN Len(writes) ELSE Len(reads)
  /\ log' = Append(log, Ev("ret", "", cb.cb, cb.id, 0, 0))
  /\ UNCHANGED <<reads, writes, rafId, timeoutId, cb, frames, timers, lastHandle, pc, calls>>
  /\ UNCHANGED geoVars

\* cb() returns: the loop goes on with i--
CbReturn ==
  /\ running
  /\ running' = FALSE
  /\ i' = i - 1
  /\ log' = Append(log, Ev("ret", "", cb.cb, cb.id, 0, 0))
  /\ UNCHANGED <<reads, writes, rafId, timeoutId, cb, frames, timers, lastHandle, pc, calls>>
  /\ UNCHANGED geoVars

\* cb() throws, as it would be if a try/catch around the whole loop swallowed it: the
\* rest of the loop is skipped and the host callback goes on after the loop
CbThrowEndsLoop ==
  /\ running
  /\ running' = FALSE
  /\ i' = 0
  /\ log' = Append(log, Ev("throw", "", cb.cb, cb.id, 0, 0))
  /\ UNCHANGED <<reads, writes, rafId, timeoutId, cb, frames, timers, lastHandle, pc, calls>>
  /\ UNCHANGED geoVars

\* cb() throws: nothing in schedule() catches, the exception leaves the host callback
CbThrow ==
  /\ running
  /\ running' = FALSE
  /\ pc' = "idle"
  /\ log' = Append(log, Ev("throw", "", cb.cb, cb.id, 0, 0))
  /\ UNCHANGED <<reads, writes, rafId, timeoutId, i, cb, frames, timers, lastHandle, calls>>
  /\ UNCHANGED geoVars

(* ---------------------------------------------------------------------- *)
(* Popout geometry (the component with direction, flip and recovery)       *)
(* ---------------------------------------------------------------------- *)

Directions == {"top", "right", "bottom", "left"}

\* const oppositeDirection
oppositeDirection == [bottom |-> "top", left |-> "right", right |-> "left", top |-> "bottom"]

\* const padding = 12
padding == 12

\* calculatePosition as it would be if the 'top' case started from the anchor's bottom edge
calculatePositionTopFromBottom(anchor, dimensions, dir) ==
  CASE dir = "bottom" ->
         [bottom |-> anchor.bottom + padding + dimensions.height,
          left   |-> anchor.left,
          right  |-> anchor.left + dimensions.width,
          top    |-> anchor.bottom + padding]
    [] dir = "left" ->
         [bottom |-> anchor.top + dimensions.height,
          left   |-> anchor.left - padding - dimensions.width,
          right  |-> anchor.left - padding,
          top    |-> anchor.top]
    [] dir = "right" ->
         [bottom |-> anchor.top + dimensions.height,
          left   |-> anchor.right + padding,
          right  |-> anchor.right + padding + dimensions.width,
          top    |-> anchor.top]
    [] dir = "top" ->
         [bottom |-> anchor.bottom - padding,
          left   |-> anchor.left,
          right  |-> anchor.left + dimensions.width,
          top    |-> anchor.bottom - padding - dimensions.height]

\* calculatePosition(anchor, dimensions, direction)
calculatePosition(anchor, dimensions, dir) ==
  CASE dir = "bottom" ->
         [bottom |-> anchor.bottom + padding + dimensions.height,
          left   |-> anchor.left,
          right  |-> anchor.left + dimensions.width,
          top    |-> anchor.bottom + padding]
    [] dir = "left" ->
         [bottom |-> anchor.top + dimensions.height,
          left   |-> anchor.left - padding - dimensions.width,
          right  |-> anchor.left - padding,
          top    |-> anchor.top]
    [] dir = "right" ->
         [bottom |-> anchor.top + dimensions.height,
          left   |-> anchor.right + padding,
          right  |-> anchor.right + padding + dimensions.width,
          top    |-> anchor.top]
    [] dir = "top" ->
         [bottom |-> anchor.top - padding,
          left   |-> anchor.left,
          right  |-> anchor.left + dimensions.width,
          top    |-> anchor.top - padding - dimensions.height]

\* checkBoundaryOutOfBounds as it would be if touching an edge counted as overflow
checkBoundaryTouching(rect, bnd) ==
  [bottom |-> rect.bottom >= bnd.bottom \/ rect.top >= bnd.bottom,
   left   |-> rect.left <= bnd.left \/ rect.right <= bnd.left,
   right  |-> rect.left >= bnd.right \/ rect.right >= bnd.right,
   top    |-> rect.top <= bnd.top \/ rect.bottom <= bnd.top]

\* checkBoundaryOutOfBounds(rect, boundary)
checkBoundaryOutOfBounds(rect, bnd) ==
  [bottom |-> rect.bottom > bnd.bottom \/ rect.top > bnd.bottom,
   left   |-> rect.left < bnd.left \/ rect.right < bnd.left,
   right  |-> rect.left > bnd.right \/ rect.right > bnd.right,
   top    |-> rect.top < bnd.top \/ rect.bottom < bnd.top]

\* isContained(rect, boundary): no side of checkBoundaryOutOfBounds is set
isContained(rect, bnd) ==
  LET sides == checkBoundaryOutOfBounds(rect, bnd)
  IN ~\E side \in DOMAIN sides : sides[side]

\* the flip test as it would be if any overflowing side triggered the flip
flipsOnAnySide(doFlip, sides, dir) ==
  doFlip /\ \E side \in Directions : sides[side]

\* if (flip && outOufBoundsSides[direction])
shouldFlip(doFlip, sides, dir) ==
  doFlip /\ sides[dir]

\* the recovery as it would be if 'original' and 'scrollable' were taken for each other
recoverSwapped(pos, newPosition, opposite, recovery) ==
  IF recovery # "original"
    THEN pos
    ELSE IF opposite = "top" THEN pos
         ELSE IF opposite = "bottom" THEN newPosition
         ELSE IF opposite = "left" THEN pos
         ELSE newPosition

\* the recovery as it would be if 'scrollable' preferred up / left
recoverUpLeft(pos, newPosition, opposite, recovery) ==
  IF recovery = "original"
    THEN pos
    ELSE IF opposite = "top" THEN newPosition
         ELSE IF opposite = "bottom" THEN pos
         ELSE IF opposite = "left" THEN newPosition
         ELSE pos

\* flipFailureRecovery === 'original' ? position : opposite === 'top' ? position : ...
recoverFlipFailure(pos, newPosition, opposite, recovery) ==
  IF recovery = "original"
    THEN pos
    ELSE IF opposite = "top" THEN pos
         ELSE IF opposite = "bottom" THEN newPosition
         ELSE IF opposite = "left" THEN pos
         ELSE newPosition

\* the choice as it would be with the branches of the outer conditional exchanged
flippedPositionInverted(pos, newPosition, bnd, opposite, recovery) ==
  IF checkBoundaryOutOfBounds(newPosition, bnd)[opposite]
    THEN newPosition
    ELSE recoverFlipFailure(pos, newPosition, opposite, recovery)

\* position = checkBoundaryOutOfBounds(newPosition, boundaryRect)[opposite] ? ... : newPosition
flippedPosition(pos, newPosition, bnd, opposite, recovery) ==
  IF checkBoundaryOutOfBounds(newPosition, bnd)[opposite]
    THEN recoverFlipFailure(pos, newPosition, opposite, recovery)
    ELSE newPosition

\* boundary && boundary.current
HasBoundary(b) == b.given /\ b.current

NoSides == [bottom |-> FALSE, left |-> FALSE, right |-> FALSE, top |-> FALSE]
NoRect == [bottom |-> 0, left |-> 0, right |-> 0, top |-> 0]

\* the read callback of positionPopout from `let flipped = false` to the end of the
\* flip block: the rectangle, the flag and the side report it ends with
resolveFlip(anchor, popout, b, dir, doFlip, recovery) ==
  LET pos == calculatePosition(anchor, popout, dir) IN
  IF HasBoundary(b)
    THEN LET sides == checkBoundaryOutOfBounds(pos, b.rect) IN
         IF shouldFlip(doFlip, sides, dir)
           THEN LET opposite == oppositeDirection[dir]
                    newPosition == calculatePosition(anchor, popout, opposite)
                IN [flipped |-> TRUE,
                    position |-> flippedPosition(pos, newPosition, b.rect, opposite, recovery),
                    outOufBoundsSides |-> sides]
           ELSE [flipped |-> FALSE, position |-> pos, outOufBoundsSides |-> sides]
    ELSE [flipped |-> FALSE, position |-> pos, outOufBoundsSides |-> NoSides]

(* Inputs of the geometry *)

\* the anchor of the demo App is 24 x 24
AnchorSize == 24
\* left / top offsets of the anchor in the viewport
Offsets == {0, 40, 100}
\* widths and heights of the popout
Sizes == {20, 50}

ClientRect(left, top, width, height) ==
  [left |-> left, top |-> top, right |-> left + width, bottom |-> top + height,
   width |-> width, height |-> height]

AnchorRects == {ClientRect(l, t, AnchorSize, AnchorSize) : l \in Offsets, t \in Offsets}
PopoutRects == {ClientRect(0, 0, w, h) : w \in Sizes, h \in Sizes}
BoundaryRects == {ClientRect(0, 0, 100, 100), ClientRect(0, 0, 150, 200), ClientRect(0, 0, 200, 200)}
\* the boundary prop: not given, a ref whose current is null, a ref to an element
Boundaries ==
  {[given |-> FALSE, current |-> FALSE, rect |-> ClientRect(0, 0, 0, 0)],
   [given |-> TRUE, current |-> FALSE, rect |-> ClientRect(0, 0, 0, 0)]}
  \cup {[given |-> TRUE, current |-> TRUE, rect |-> r] : r \in BoundaryRects}
Recoveries == {"original", "scrollable"}

\* `${n}px`, and the empty value of a style property never assigned
Px(n) == [value |-> n, unit |-> "px"]
Unset == [value |-> 0, unit |-> ""]

\* a mounted Popout that has not been positioned: both refs hold their element, no
\* style assigned, no callback enqueued
DomInit ==
  /\ anchorCurrent = TRUE
  /\ popoutCurrent = TRUE
  /\ style = [top |-> Unset, left |-> Unset]
  /\ borders = [side \in Directions |-> ""]
  /\ closures = <<>>
  /\ measuredFor = 0
  /\ doneFor = 0
  /\ triggers = 0

\* the props and rectangles of a mounted Popout, before its read callback has run
GeoInputs ==
  /\ DomInit
  /\ anchorRect \in AnchorRects
  /\ popoutRect \in PopoutRects
  /\ boundary \in Boundaries
  /\ direction \in Directions
  /\ flip \in BOOLEAN
  /\ flipFailureRecovery \in Recoveries
  /\ position = NoRect
  /\ flipped = FALSE
  /\ outOufBoundsSides = NoSides
  /\ resolved = FALSE

\* the Popout the demo App mounts, <Popout boundary=... direction="top" flip={true}>,
\* with the rectangles of a 24 x 24 anchor at (100, 100) and a 50 x 50 popout
GeoApp ==
  /\ DomInit
  /\ anchorRect = ClientRect(100, 100, AnchorSize, AnchorSize)
  /\ popoutRect = ClientRect(0, 0, 50, 50)
  /\ boundary = [given |-> TRUE, current |-> TRUE, rect |-> ClientRect(0, 0, 200, 200)]
  /\ direction = "top"
  /\ flip = TRUE
  /\ flipFailureRecovery = "original"
  /\ position = NoRect
  /\ flipped = FALSE
  /\ outOufBoundsSides = NoSides
  /\ resolved = FALSE

\* the read callback of positionPopout computes the rectangle (lines 143-168)
Resolve ==
  /\ ~resolved
  /\ LET r == resolveFlip(anchorRect, popoutRect, boundary, direction, flip,
                          flipFailureRecovery)
     IN /\ position' = r.position
        /\ flipped' = r.flipped
        /\ outOufBoundsSides' = r.outOufBoundsSides
  /\ resolved' = TRUE
  /\ UNCHANGED <<anchorRect, popoutRect, boundary, direction, flip, flipFailureRecovery>>
  /\ UNCHANGED domVars
  /\ UNCHANGED schedVars

vars == <<schedVars, geoVars>>

Init == SchedInit /\ GeoApp

Next ==
  \/ Read \/ Write
  \/ RafCallback \/ WriteShift \/ RafEnd
  \/ TimerCallback \/ ReadShift \/ TimerEnd
  \/ CbRead \/ CbWrite \/ CbReturn \/ CbThrow

Spec == Init /\ [][Next]_vars

\* the host delivers every signal it was asked for, and code that runs runs on
LiveSpec ==
  /\ Spec
  /\ WF_vars(RafCallback) /\ WF_vars(TimerCallback)
  /\ WF_vars(WriteShift) /\ WF_vars(RafEnd)
  /\ WF_vars(ReadShift) /\ WF_vars(TimerEnd)
  /\ WF_vars(CbReturn \/ CbThrow)

\* the geometry alone: every input, and the read callback applied to it
FlipInit == SchedInit /\ GeoInputs

FlipNext == Resolve

FlipSpec == FlipInit /\ [][FlipNext]_vars

(* ---------------------------------------------------------------------- *)
(* positionPopout on the scheduler                                         *)
(* ---------------------------------------------------------------------- *)

\* where the anchor of the demo App can be after scrolling: at (100, 100) the popout
\* fits above it, at (100, 40) it does not
PopAnchors == {ClientRect(100, 100, AnchorSize, AnchorSize),
               ClientRect(100, 40, AnchorSize, AnchorSize)}
\* the boundary prop: not given, or the App's boundary element
PopBoundaries ==
  {[given |-> FALSE, current |-> FALSE, rect |-> ClientRect(0, 0, 0, 0)],
   [given |-> TRUE, current |-> TRUE, rect |-> ClientRect(0, 0, 200, 200)]}

\* a mounted <Popout direction="top" flip={true}> with a 50 x 50 popout
PopInit ==
  /\ SchedInit
  /\ DomInit
  /\ anchorRect \in PopAnchors
  /\ popoutRect = ClientRect(0, 0, 50, 50)
  /\ boundary \in PopBoundaries
  /\ direction = "top"
  /\ flip = TRUE
  /\ flipFailureRecovery = "original"
  /\ position = NoRect
  /\ flipped = FALSE
  /\ outOufBoundsSides = NoSides
  /\ resolved = FALSE

\* the check of line 142 as it would be if it looked at the anchor only
anchorAvailable == anchorCurrent

\* !(!anchor.current || !popoutRef.current)
refsAvailable == anchorCurrent /\ popoutCurrent

\* the executing read callback has already enqueued its write of this kind
Written(kind) ==
  \E n \in DOMAIN closures : closures[n].by = cb.id /\ closures[n].kind = kind
\* what a write callback enqueued now captures
Captured(kind) ==
  [by |-> cb.id, kind |-> kind, position |-> position,
   outOufBoundsSides |-> outOufBoundsSides]

\* positionPopout(): the effect, or the resize / scroll listener, calls read(() => ...)
PositionPopout ==
  /\ pc = "idle" /\ triggers < MaxTriggers
  /\ triggers' = triggers + 1
  /\ read("measure", 0)
  /\ UNCHANGED <<anchorRect, popoutRect, boundary, direction, flip, flipFailureRecovery,
                 position, flipped, outOufBoundsSides, resolved>>
  /\ UNCHANGED <<anchorCurrent, popoutCurrent, style, borders, closures, measuredFor,
                 doneFor>>

\* the page scrolls or is resized: the anchor is elsewhere in the viewport
Layout ==
  /\ pc = "idle"
  /\ \E r \in PopAnchors \ {anchorRect} : anchorRect' = r
  /\ UNCHANGED <<popoutRect, boundary, direction, flip, flipFailureRecovery,
                 position, flipped, outOufBoundsSides, resolved>>
  /\ UNCHANGED domVars
  /\ UNCHANGED schedVars

\* React attaches or detaches the anchor or the popout element
Refs ==
  /\ pc = "idle"
  /\ \E a \in BOOLEAN, p \in BOOLEAN :
       /\ <<a, p>> # <<anchorCurrent, popoutCurrent>>
       /\ anchorCurrent' = a
       /\ popoutCurrent' = p
  /\ UNCHANGED <<anchorRect, popoutRect, boundary, direction, flip, flipFailureRecovery,
                 position, flipped, outOufBoundsSides, resolved>>
  /\ UNCHANGED <<style, borders, closures, measuredFor, doneFor, triggers>>
  /\ UNCHANGED schedVars

\* the read callback: if (!anchor.current || !popoutRef.current) return
MeasureSkip ==
  /\ running /\ cb.cb = "measure" /\ measuredFor # cb.id
  /\ ~refsAvailable
  /\ CbReturn

\* the read callback, lines 143-168: measure the rectangles and compute position
Measure ==
  /\ running /\ cb.cb = "measure" /\ measuredFor # cb.id
  /\ refsAvailable
  /\ LET r == resolveFlip(anchorRect, popoutRect, boundary, direction, flip,
                          flipFailureRecovery)
     IN /\ position' = r.position
        /\ flipped' = r.flipped
        /\ outOufBoundsSides' = r.outOufBoundsSides
  /\ resolved' = TRUE
  /\ measuredFor' = cb.id
  /\ log' = Append(log, Ev("measured", "", cb.cb, cb.id, 0, 0))
  /\ UNCHANGED <<reads, writes, rafId, timeoutId, i, cb, frames, timers, lastHandle,
                 pc, running, calls>>
  /\ UNCHANGED <<anchorRect, popoutRect, boundary, direction, flip, flipFailureRecovery>>
  /\ UNCHANGED <<anchorCurrent, popoutCurrent, style, borders, closures, doneFor, triggers>>

\* the read callback, lines 170-178: with a boundary, write(() => border colours)
WriteDebug ==
  /\ running /\ cb.cb = "measure" /\ measuredFor = cb.id
  /\ HasBoundary(boundary) /\ ~Written("debug") /\ ~Written("style")
  /\ write("debug", cb.id)
  /\ closures' = closures @@ ((calls + 1) :> Captured("debug"))
  /\ UNCHANGED <<anchorRect, popoutRect, boundary, direction, flip, flipFailureRecovery,
                 position, flipped, outOufBoundsSides, resolved>>
  /\ UNCHANGED <<anchorCurrent, popoutCurrent, style, borders, measuredFor, doneFor,
                 triggers>>

\* the read callback, lines 180-183: write(() => el.style.top = ..., el.style.left = ...)
WriteStyle ==
  /\ running /\ cb.cb = "measure" /\ measuredFor = cb.id
  /\ HasBoundary(boundary) => Written("debug")
  /\ ~Written("style")
  /\ write("style", cb.id)
  /\ closures' = closures @@ ((calls + 1) :> Captured("style"))
  /\ doneFor' = cb.id
  /\ UNCHANGED <<anchorRect, popoutRect, boundary, direction, flip, flipFailureRecovery,
                 position, flipped, outOufBoundsSides, resolved>>
  /\ UNCHANGED <<anchorCurrent, popoutCurrent, style, borders, measuredFor, triggers>>

\* the write callback of lines 171-177: boundaryEl.style[...] = orange or green
DebugApply ==
  /\ running /\ cb.cb = "debug" /\ doneFor # cb.id
  /\ borders' = [side \in Directions |->
                   IF closures[cb.id].outOufBoundsSides[side] THEN "orange" ELSE "green"]
  /\ doneFor' = cb.id
  /\ UNCHANGED <<anchorRect, popoutRect, boundary, direction, flip, flipFailureRecovery,
                 position, flipped, outOufBoundsSides, resolved>>
  /\ UNCHANGED <<anchorCurrent, popoutCurrent, style, closures, measuredFor, triggers>>
  /\ UNCHANGED schedVars

\* the write callback of lines 180-183: el.style.top = `${position.top}px`, left likewise
StyleApply ==
  /\ running /\ cb.cb = "style" /\ doneFor # cb.id
  /\ style' = [top |-> Px(closures[cb.id].position.top),
               left |-> Px(closures[cb.id].position.left)]
  /\ doneFor' = cb.id
  /\ UNCHANGED <<anchorRect, popoutRect, boundary, direction, flip, flipFailureRecovery,
                 position, flipped, outOufBoundsSides, resolved>>
  /\ UNCHANGED <<anchorCurrent, popoutCurrent, borders, closures, measuredFor, triggers>>
  /\ UNCHANGED schedVars

\* a callback of positionPopout returns after its last statement
PopReturn ==
  /\ running /\ doneFor = cb.id
  /\ CbReturn

PopNext ==
  \/ PositionPopout \/ Layout \/ Refs
  \/ RafCallback \/ WriteShift \/ RafEnd
  \/ TimerCallback \/ ReadShift \/ TimerEnd
  \/ MeasureSkip \/ Measure \/ WriteDebug \/ WriteStyle
  \/ DebugApply \/ StyleApply \/ PopReturn

PopoutSpec == PopInit /\ [][PopNext]_vars

(* ---------------------------------------------------------------------- *)
(* Reading the history                                                     *)
(* ---------------------------------------------------------------------- *)

Pos == 1..Len(log)
IsEnq(p) == log[p].e = "enq"
IsRun(p) == log[p].e = "run"
IsDone(p) == log[p].e \in {"ret", "throw"}
IsStart(p) == log[p].e \in {"raf", "timer"}
\* where the calls, the executions, their ends and the host callbacks' starts are
Enqs == {p \in Pos : IsEnq(p)}
Runs == {p \in Pos : IsRun(p)}
Dones == {p \in Pos : IsDone(p)}
Starts == {p \in Pos : IsStart(p)}
\* the queue a host callback drains
Drains(e) == IF e = "raf" THEN "w" ELSE "r"
\* the signal whose callback was running (or had last run) at position p
StartBefore(p) == LET before == {s \in Starts : s < p}
                  IN {s \in before : \A t \in before : t <= s}
\* ids of the calls, and of the executions, in order
IdsOf(kind) == LET sel == SelectSeq(log, LAMBDA ev : ev.e = kind)
               IN [k \in 1..Len(sel) |-> sel[k].id]
\* the queue of kind q
Queue(q) == IF q = "r" THEN reads ELSE writes
Count(S) == Cardinality(S)

(* ---------------------------------------------------------------------- *)
(* Properties of the scheduler                                             *)
(* ---------------------------------------------------------------------- *)

\* the history is one batch: calls from outside only, all writes before all reads,
\* all made before the one animation frame, whose one timeout has been delivered
\* and has finished
OneCycleOfBatch ==
  /\ pc = "idle" /\ ~running
  /\ Count({p \in Starts : log[p].e = "raf"}) = 1
  /\ Count({p \in Starts : log[p].e = "timer"}) = 1
  /\ log[Len(log)].e \in {"timerEnd", "throw"}
  /\ \A p \in Enqs :
        /\ log[p].by = 0
        /\ \A s \in Starts : p < s
        /\ \A r \in Enqs : (log[p].q = "w" /\ log[r].q = "r") => p < r

\* C1: from an idle scheduler, k write callbacks then m read callbacks enqueued in one
\* turn have all run after one animation frame and one timeout, exactly those, the
\* writes before the reads and each group in the order of the calls.
C1_BatchRunsInOneCycle ==
  OneCycleOfBatch => IdsOf("run") = IdsOf("enq")

\* C2: a write callback enqueued by a running read callback runs only inside an
\* animation-frame callback that started after the enqueuing read callback was over;
\* it never runs inside the timeout callback that is draining the reads.
C2_WriteFromReadDeferred ==
  \A pe \in Enqs :
    (/\ log[pe].q = "w" /\ log[pe].by # 0
     /\ \E pb \in Runs : log[pb].id = log[pe].by /\ log[pb].q = "r")
    => \A pr \in Runs :
         (log[pr].id = log[pe].id)
         => /\ \A s \in StartBefore(pr) : log[s].e = "raf"
            /\ \E pd \in Dones, pf \in StartBefore(pr) :
                 /\ pe < pd /\ pd < pf
                 /\ log[pd].id = log[pe].by

\* C2 witness: a write enqueued by a read callback has run
C2_Witness ==
  \E pe \in Enqs, pb \in Runs, pr \in Runs :
    /\ log[pe].q = "w" /\ log[pe].by # 0
    /\ log[pb].id = log[pe].by /\ log[pb].q = "r"
    /\ log[pr].id = log[pe].id

\* C3: when a host callback is over, every callback that was in the queue it drains
\* when it started has run in it, whether or not one of them threw.
C3_FailureIsolated ==
  (pc = "idle" /\ ~running) =>
    \A s \in StartBefore(Len(log) + 1) :
      \A pe \in Enqs :
        (/\ pe < s /\ log[pe].q = Drains(log[s].e)
         /\ ~\E r \in Runs : r < s /\ log[r].id = log[pe].id)
        => \E r \in Runs : r > s /\ log[r].id = log[pe].id

\* the call with sequence number n is waiting in a queue
Queued(n) == \E q \in {"r", "w"} : \E k \in 1..Len(Queue(q)) : Queue(q)[k].id = n
\* the callback of call n is executing
Executing(n) == running /\ cb.id = n

\* C4: every callback enqueued through read or write eventually runs, when the host
\* delivers the signals it was asked for.
C4_EventuallyRuns ==
  \A n \in 1..MaxEnq : Queued(n) ~> Executing(n)

\* C5: every call of read or write leads to one execution of its callback and no more:
\* per callback, executions plus waiting entries equal calls; no call is executed
\* twice; every execution is of a call made before it, of the same callback and kind.
C5_ExactlyOnce ==
  /\ \A c \in Callbacks :
       Count({p \in Runs : log[p].cb = c})
         + Count({k \in 1..Len(reads) : reads[k].cb = c})
         + Count({k \in 1..Len(writes) : writes[k].cb = c})
       = Count({p \in Enqs : log[p].cb = c})
  /\ \A p \in Runs, r \in Runs : (log[p].id = log[r].id) => p = r
  /\ \A r \in Runs :
       \E p \in Enqs : /\ p < r /\ log[p].id = log[r].id
                       /\ log[p].cb = log[r].cb /\ log[p].q = log[r].q

\* C5 witness: one callback was enqueued twice and has run twice, nothing left waiting
C5_Witness ==
  /\ reads = <<>> /\ writes = <<>>
  /\ \E p \in Runs, r \in Runs :
       p # r /\ log[p].cb = log[r].cb /\ log[p].q = log[r].q

\* C6: read and write return the length of their queue after the append: the calls of
\* that kind so far minus the callbacks of that kind already removed for execution.
C6_ReturnsNewLength ==
  /\ \A p \in Enqs :
       log[p].ret = Count({e \in Enqs : e <= p /\ log[e].q = log[p].q})
                    - Count({r \in Runs : r < p /\ log[r].q = log[p].q})
  /\ (log # <<>> /\ IsEnq(Len(log))) => log[Len(log)].ret = Len(Queue(log[Len(log)].q))

\* C6 witness: a callback enqueues into the queue that is being drained, and the value
\* returned is smaller than the number of calls made
C6_Witness ==
  \E p \in Enqs, b \in Runs :
    /\ log[p].by # 0
    /\ log[b].id = log[p].by /\ log[b].q = log[p].q
    /\ log[p].ret < Count({e \in Enqs : e <= p /\ log[e].q = log[p].q})
    /\ log[p].ret > 1

\* the host callback that started at s is still running
InProgress(s) == pc # "idle" /\ StartBefore(Len(log) + 1) = {s}
\* the call at pe was made by a callback that ran in the phase draining queue q
MadeInPhase(pe, q) ==
  log[pe].by # 0 /\ \E pb \in Runs : log[pb].id = log[pe].by /\ log[pb].q = q
\* the call at pe has had its callback run
HasRun(pe) == \E pr \in Runs : log[pr].id = log[pe].id

\* C14: a write enqueued by a running write callback, and a read enqueued by a running
\* read callback, is not run in the phase it was enqueued in: until a later host
\* callback takes it, it waits in its queue, and entries of one queue run in the order
\* they were enqueued.
C14_PhaseDrainsSnapshot ==
  /\ \A pe \in Enqs :
       MadeInPhase(pe, log[pe].q)
       => /\ \A pr \in Runs :
               (log[pr].id = log[pe].id) => \E s \in Starts : pe < s /\ s < pr
          /\ ~HasRun(pe) =>
               \E k \in 1..Len(Queue(log[pe].q)) : Queue(log[pe].q)[k].id = log[pe].id
  /\ \A p \in Runs, r \in Runs :
       (log[p].q = log[r].q /\ p < r) => log[p].id < log[r].id
  /\ \A q \in {"r", "w"} : \A k \in 1..Len(Queue(q)) :
       \A m \in 1..Len(Queue(q)) : (k < m) => Queue(q)[k].id < Queue(q)[m].id

\* C14 witness: a write enqueued by a write callback has run, in a later animation frame
C14_Witness ==
  \E pe \in Enqs, pr \in Runs :
    /\ log[pe].q = "w" /\ MadeInPhase(pe, "w")
    /\ log[pr].id = log[pe].id
    /\ \E s \in Starts : pe < s /\ s < pr /\ log[s].e = "raf"

\* a timeout was requested and not yet delivered when the event at p was recorded
TimerPendingAt(p) ==
  \E s \in Pos : /\ s < p /\ log[s].e = "rafEnd"
                 /\ ~\E t \in Starts : s < t /\ t < p /\ log[t].e = "timer"
\* pw is a write and pr a later read, both called from outside in one synchronous turn
SameTurnWriteRead(pw, pr) ==
  /\ pw < pr
  /\ log[pw].q = "w" /\ log[pw].by = 0
  /\ log[pr].q = "r" /\ log[pr].by = 0
  /\ \A p \in Pos : (pw < p /\ p < pr) => (IsEnq(p) /\ log[p].by = 0)
\* the callback of the call at pw ran before the one of the call at pr
RanBefore(pw, pr) ==
  \A rr \in Runs :
    (log[rr].id = log[pr].id) => \E rw \in Runs : rw < rr /\ log[rw].id = log[pw].id

\* C15: whatever the scheduler's state, a write and then a read enqueued from outside
\* in one synchronous turn run in that order: the write before the read.
C15_WriteBeforeRead ==
  \A pw \in Enqs, pr \in Enqs : SameTurnWriteRead(pw, pr) => RanBefore(pw, pr)

\* C15 amended: the same, for a turn in which no timeout is pending.
C15_WriteBeforeReadNoTimer ==
  \A pw \in Enqs, pr \in Enqs :
    (SameTurnWriteRead(pw, pr) /\ ~TimerPendingAt(pw)) => RanBefore(pw, pr)

\* C15 witness: a write and a read enqueued in one turn with no timeout pending have
\* both run
C15_Witness ==
  \E pw \in Enqs, pr \in Enqs :
    /\ SameTurnWriteRead(pw, pr) /\ ~TimerPendingAt(pw)
    /\ HasRun(pw) /\ HasRun(pr)

\* C16: at most one animation-frame request and at most one timeout are outstanding,
\* and they are the ones rafId and timeoutId name.
C16_Coalesced ==
  /\ Cardinality(frames) <= 1
  /\ Cardinality(timers) <= 1
  /\ frames = (IF rafId = NULL THEN {} ELSE {rafId})
  /\ timers = (IF timeoutId = NULL THEN {} ELSE {timeoutId})

\* C16 witness: two calls were made one after the other while a timeout was pending,
\* and one frame request and one timeout are outstanding
C16_Witness ==
  /\ frames = {rafId} /\ timers = {timeoutId}
  /\ \E p \in Enqs : p + 1 \in Enqs /\ TimerPendingAt(p)

\* C17: when no host callback is running, a non-empty write queue has an animation
\* frame requested, and a non-empty read queue has an animation frame or a timeout
\* requested.
C17_NothingStranded ==
  (pc = "idle" /\ ~running)
  => /\ writes # <<>> => (rafId # NULL /\ rafId \in frames)
     /\ reads # <<>> => \/ (rafId # NULL /\ rafId \in frames)
                        \/ (timeoutId # NULL /\ timeoutId \in timers)

\* C18: a read enqueued by a running write callback leaves an animation frame
\* requested, has a timeout pending once the frame callback it was enqueued in is
\* over, and runs in the first timeout callback after its enqueue.
C18_ReadFromWriteSameCycle ==
  \A pe \in Enqs :
    (log[pe].q = "r" /\ MadeInPhase(pe, "w"))
    => /\ \A s \in StartBefore(pe) :
            /\ InProgress(s) => (rafId # NULL /\ rafId \in frames)
            /\ (~InProgress(s) /\ ~HasRun(pe))
               => \/ /\ timeoutId # NULL /\ timeoutId \in timers
                     /\ ~\E t \in Starts : pe < t /\ log[t].e = "timer"
                  \/ \E t \in Starts :
                       /\ pe < t /\ log[t].e = "timer" /\ InProgress(t)
                       /\ ~\E u \in Starts : pe < u /\ u < t /\ log[u].e = "timer"
       /\ \A pr \in Runs :
            (log[pr].id = log[pe].id)
            => \A t \in StartBefore(pr) :
                 /\ log[t].e = "timer"
                 /\ ~\E u \in Starts : pe < u /\ u < t /\ log[u].e = "timer"

(* ---------------------------------------------------------------------- *)
(* Properties of positionPopout                                            *)
(* ---------------------------------------------------------------------- *)

\* the positioning read callback is at its first statement and a ref is null
SkipCase ==
  /\ running /\ cb.cb = "measure" /\ measuredFor # cb.id
  /\ (~anchorCurrent \/ ~popoutCurrent)
\* the read callback of the call with sequence number n measured the rectangles
Measured(n) == \E pm \in Pos : log[pm].e = "measured" /\ log[pm].id = n

\* C13: when the positioning read callback runs and the anchor or the popout is not
\* available, its one step is to return: no rectangle computed, no write enqueued, the
\* queues and both pending markers unchanged, no style changed; and every write ever
\* enqueued comes from a read callback that had measured.
C13_SkippedWhenUnavailable ==
  /\ [](\A pe \in Enqs : (log[pe].q = "w") => Measured(log[pe].by))
  /\ [][SkipCase =>
          /\ ~running'
          /\ UNCHANGED <<reads, writes, rafId, timeoutId, frames, timers, calls>>
          /\ UNCHANGED <<position, flipped, outOufBoundsSides, resolved, style, borders,
                         closures, measuredFor>>]_vars

\* C13 witness: a positioning read callback has run and returned without measuring,
\* a ref being null, and nothing was enqueued by it
C13_Witness ==
  /\ ~anchorCurrent \/ ~popoutCurrent
  /\ \E pr \in Runs, pd \in Dones :
       /\ log[pr].cb = "measure" /\ log[pd].id = log[pr].id /\ pr < pd
       /\ ~Measured(log[pr].id)
       /\ ~\E pe \in Enqs : log[pe].by = log[pr].id

\* the write callbacks that set the style, by call
StyleWrites == {n \in DOMAIN closures : closures[n].kind = "style"}

\* C20: once nothing is queued or pending, the top and left of the popout are those of
\* the last rectangle a positioning read callback computed; a read callback that
\* measured has enqueued one style write when it returns; style writes run in the order
\* their read callbacks ran.
C20_LastMeasurementWins ==
  /\ (Idle(reads, writes, rafId, timeoutId, pc) /\ measuredFor # 0)
     => style = [top |-> Px(position.top), left |-> Px(position.left)]
  /\ \A pd \in Dones :
       Measured(log[pd].id)
       => Count({pe \in Enqs : log[pe].by = log[pd].id /\ log[pe].cb = "style"}) = 1
  /\ \A r1 \in Runs, r2 \in Runs :
       (log[r1].cb = "style" /\ log[r2].cb = "style" /\ r1 < r2)
       => \E b1 \in Runs, b2 \in Runs :
            /\ b1 < b2
            /\ closures[log[r1].id].by = log[b1].id
            /\ closures[log[r2].id].by = log[b2].id

\* C20 witness: two positioning read callbacks measured different rectangles, both
\* style writes have run, nothing is pending, and the style is that of the later one
C20_Witness ==
  /\ Idle(reads, writes, rafId, timeoutId, pc)
  /\ Cardinality(StyleWrites) = 2
  /\ \E n \in StyleWrites, m \in StyleWrites :
       /\ n < m
       /\ closures[n].position # closures[m].position
       /\ closures[m].position = position
       /\ style = [top |-> Px(closures[m].position.top),
                   left |-> Px(closures[m].position.left)]
       /\ style # [top |-> Px(closures[n].position.top),
                   left |-> Px(closures[n].position.left)]


(* ---------------------------------------------------------------------- *)
(* Properties of the flip resolver                                         *)
(* ---------------------------------------------------------------------- *)

Primary == calculatePosition(anchorRect, popoutRect, direction)
Opposite == oppositeDirection[direction]
Alternative == calculatePosition(anchorRect, popoutRect, Opposite)
\* the primary placement overflows the boundary on the side of direction
PrimaryOverflows == checkBoundaryOutOfBounds(Primary, boundary.rect)[direction]
\* the opposite placement overflows the boundary on the opposite side
AlternativeOverflows == checkBoundaryOutOfBounds(Alternative, boundary.rect)[Opposite]

\* C7: without a boundary, or with flip off, or when the primary placement does not
\* overflow on the side of direction, the result is the primary placement, unflipped;
\* overflow on another side changes nothing.
C7_PrimaryKept ==
  (resolved /\ (~HasBoundary(boundary) \/ ~flip \/ ~PrimaryOverflows))
  => (position = Primary /\ flipped = FALSE)

\* C7 witness: flip is on and the primary placement overflows the boundary, but only
\* on sides other than that of direction
C7_Witness ==
  /\ resolved /\ HasBoundary(boundary) /\ flip
  /\ ~PrimaryOverflows
  /\ \E side \in Directions \ {direction} :
       checkBoundaryOutOfBounds(Primary, boundary.rect)[side]
  /\ position = Primary /\ ~flipped

\* C8: with a boundary and flip on, when the primary placement overflows on its side
\* and the opposite placement does not overflow on the opposite side, the result is
\* the opposite placement, flipped, under either recovery policy.
C8_FlipsWhenOppositeFits ==
  (resolved /\ HasBoundary(boundary) /\ flip /\ PrimaryOverflows /\ ~AlternativeOverflows)
  => (position = Alternative /\ flipped = TRUE)

\* C8 witness: anchor 100..124, popout 50 x 50, boundary right = 150, direction right:
\* 136..186 overflows, the result is 38..88 to the left
C8_Witness ==
  /\ resolved /\ HasBoundary(boundary) /\ flip /\ PrimaryOverflows /\ ~AlternativeOverflows
  /\ direction = "right" /\ flipFailureRecovery = "scrollable"
  /\ Primary.right = 186 /\ boundary.rect.right = 150
  /\ position = [top |-> 100, left |-> 38, right |-> 88, bottom |-> 150]
  /\ flipped

\* C9: with a boundary and flip on, when both placements overflow on their own sides
\* and the policy is 'original', the result is the primary rectangle and flipped is true.
C9_OriginalRecovery ==
  (/\ resolved /\ HasBoundary(boundary) /\ flip /\ PrimaryOverflows /\ AlternativeOverflows
   /\ flipFailureRecovery = "original")
  => (position = Primary /\ flipped = TRUE)

\* C9 witness: both placements overflow, the policy is 'original', and the policy
\* 'scrollable' would have chosen the other rectangle
C9_Witness ==
  /\ resolved /\ HasBoundary(boundary) /\ flip /\ PrimaryOverflows /\ AlternativeOverflows
  /\ flipFailureRecovery = "original"
  /\ direction \in {"top", "left"}
  /\ position = Primary /\ position # Alternative /\ flipped

\* C10: with a boundary and flip on, when both placements overflow on their own sides
\* and the policy is 'scrollable', the result is the placement towards bottom or right:
\* the opposite one for direction top or left, the primary one for direction bottom or
\* right; flipped is true.
C10_ScrollableRecovery ==
  (/\ resolved /\ HasBoundary(boundary) /\ flip /\ PrimaryOverflows /\ AlternativeOverflows
   /\ flipFailureRecovery = "scrollable")
  => /\ flipped = TRUE
     /\ direction \in {"top", "left"} => position = Alternative
     /\ direction \in {"bottom", "right"} => position = Primary
     /\ position = calculatePosition(anchorRect, popoutRect,
                     IF direction \in {"top", "bottom"} THEN "bottom" ELSE "right")

\* C10 witness: direction top, both placements overflow, the result is the rectangle
\* below the anchor although it overflows the bottom of the boundary
C10_Witness ==
  /\ resolved /\ HasBoundary(boundary) /\ flip /\ PrimaryOverflows /\ AlternativeOverflows
  /\ flipFailureRecovery = "scrollable" /\ direction = "top"
  /\ position = Alternative /\ position # Primary /\ flipped
  /\ position.bottom > boundary.rect.bottom

\* C10, the other branch: direction bottom, both overflow, the primary rectangle is kept
C10_WitnessPrimary ==
  /\ resolved /\ HasBoundary(boundary) /\ flip /\ PrimaryOverflows /\ AlternativeOverflows
  /\ flipFailureRecovery = "scrollable" /\ direction \in {"bottom", "right"}
  /\ position = Primary /\ position # Alternative /\ flipped

\* C11: for every direction, calculatePosition gives a rectangle of the popout's width
\* and height, 12 away from the anchor's edge on that side, aligned with the anchor's
\* top edge (left, right) or left edge (top, bottom).
C11_PlacementFormulas ==
  \A d \in Directions :
    LET r == calculatePosition(anchorRect, popoutRect, d) IN
    /\ r.right - r.left = popoutRect.width
    /\ r.bottom - r.top = popoutRect.height
    /\ d = "right"  => (r.left - anchorRect.right = 12 /\ r.top = anchorRect.top)
    /\ d = "left"   => (anchorRect.left - r.right = 12 /\ r.top = anchorRect.top)
    /\ d = "bottom" => (r.top - anchorRect.bottom = 12 /\ r.left = anchorRect.left)
    /\ d = "top"    => (anchorRect.top - r.bottom = 12 /\ r.left = anchorRect.left)

\* C11 witness: the read callback placed a 50 x 50 popout above the anchor at (100, 100),
\* at top 38, bottom 88
C11_Witness ==
  /\ resolved /\ ~flipped /\ direction = "top"
  /\ anchorRect.top = 100 /\ popoutRect.height = 50
  /\ position = [top |-> 38, bottom |-> 88, left |-> anchorRect.left,
                 right |-> anchorRect.left + popoutRect.width]

\* the rectangles the read callback handles, and a boundary's own rectangle
SeenRects == {Primary, Alternative, anchorRect}
\* bnd contains rect
Contains(bnd, rect) ==
  /\ bnd.top <= rect.top /\ rect.bottom <= bnd.bottom
  /\ bnd.left <= rect.left /\ rect.right <= bnd.right
\* rect lies strictly outside bnd on the side
StrictlyOutside(rect, bnd, side) ==
  CASE side = "top"    -> rect.bottom < bnd.top
    [] side = "bottom" -> rect.top > bnd.bottom
    [] side = "left"   -> rect.right < bnd.left
    [] side = "right"  -> rect.left > bnd.right

\* C12: for rectangles with top <= bottom and left <= right, a boundary that contains
\* the rectangle (the rectangle itself included) reports no side, and a rectangle
\* strictly outside the boundary on a side has that side reported.
C12_CollisionDetector ==
  \A bnd \in BoundaryRects \cup {anchorRect} :
    \A rect \in SeenRects \cup {bnd} :
      (rect.top <= rect.bottom /\ rect.left <= rect.right)
      => /\ Contains(bnd, rect) =>
              (checkBoundaryOutOfBounds(rect, bnd) = NoSides /\ isContained(rect, bnd))
         /\ \A side \in Directions :
              StrictlyOutside(rect, bnd, side) => checkBoundaryOutOfBounds(rect, bnd)[side]

\* C12 witness: the placement lies wholly left of the boundary, the read callback
\* reported its left side, and the boundary against itself reports nothing
C12_Witness ==
  /\ resolved /\ HasBoundary(boundary) /\ ~flipped
  /\ position.right < boundary.rect.left
  /\ outOufBoundsSides["left"]
  /\ checkBoundaryOutOfBounds(boundary.rect, boundary.rect) = NoSides

\* the side the rectangle the read callback ended with is attached on
ResultSide == IF position = Primary THEN direction ELSE Opposite

\* C19: with a boundary and flip on, when one of the two placements does not overflow
\* on its own side, the rectangle returned does not overflow on its own side.
C19_FitsWhenOneFits ==
  (resolved /\ HasBoundary(boundary) /\ flip /\ (~PrimaryOverflows \/ ~AlternativeOverflows))
  => /\ position \in {Primary, Alternative}
     /\ ~checkBoundaryOutOfBounds(position, boundary.rect)[ResultSide]

\* C19 witness: the primary placement overflows, the opposite one fits and is returned
C19_Witness ==
  /\ resolved /\ HasBoundary(boundary) /\ flip /\ PrimaryOverflows /\ ~AlternativeOverflows
  /\ position = Alternative /\ position # Primary
  /\ ~checkBoundaryOutOfBounds(position, boundary.rect)[Opposite]

====
